---- MODULE Spec2Model ----
(***************************************************************************)
(* Model of src/src/project-main.py: the address-book assistant.           *)
(*                                                                         *)
(* Text is a sequence of Unicode code points (Python str), so that         *)
(* str.isdigit, str.strip, str.lower, the e-mail regular expression,       *)
(* strptime and strftime are computed rather than assumed.                 *)
(***************************************************************************)
EXTENDS Integers, Sequences, FiniteSets, TLC

VARIABLES
    record,   \* the Record an operation sequence acts on (class Record)
    raw,      \* the text handed to the Phone constructor
    book,     \* AddressBook.data: the records in insertion order
    today,    \* datetime.today().date()
    pc,       \* position of main(): "read" (at input()), "intr", "done", "killed"
    file,     \* addressbook.json: what save_data wrote last
    result    \* what the last operation returned or raised

vars == <<record, raw, book, today, pc, file, result>>

-----------------------------------------------------------------------------
(* Bounds of the model *)

\* most phones one record holds
MaxPhones == 3
\* longest text handed to the Phone constructor
MaxRawLen == 11
\* number of calendar years "today" ranges over, from YearLo
YearSpan == 2
\* largest N of get_birthdays_in_days(N)
MaxDays == 3
\* most records in a book of the search and birthday specifications
MaxBook == 2
\* most phones one record of the book of main() holds
MaxMainPhones == 2

-----------------------------------------------------------------------------
(* Text: Python str *)

\* "0931112233"
P1 == <<48, 57, 51, 49, 49, 49, 50, 50, 51, 51>>
\* ten ARABIC-INDIC DIGIT THREE, U+0663: digits for str.isdigit, not ASCII
PU == <<1635, 1635, 1635, 1635, 1635, 1635, 1635, 1635, 1635, 1635>>
\* "12345": too short
PShort == <<49, 50, 51, 52, 53>>
\* "09311122ab": ten characters, two letters
PAlpha == <<48, 57, 51, 49, 49, 49, 50, 50, 97, 98>>

IsAsciiDigit(c) == c \in 48..57

\* str.isdigit() of one character: the ASCII digits and the other Unicode
\* digits (here the Arabic-Indic block U+0660..U+0669 and superscript 2, 3, 1)
IsDigitChar(c) == c \in 48..57 \/ c \in 1632..1641 \/ c \in {178, 179, 185}

\* str.isdigit(): non-empty and every character a digit
IsDigit(s) == Len(s) > 0 /\ \A i \in 1..Len(s) : IsDigitChar(s[i])

\* whitespace for str.strip(): tab, LF, VT, FF, CR, FS..US, space, NEL, NBSP
IsSpace(c) == c \in 9..13 \/ c \in 28..32 \/ c \in {133, 160}

RECURSIVE LStrip(_)
LStrip(s) == IF s = <<>> THEN s
             ELSE IF IsSpace(Head(s)) THEN LStrip(Tail(s)) ELSE s

RECURSIVE RStrip(_)
RStrip(s) == IF s = <<>> THEN s
             ELSE IF IsSpace(s[Len(s)]) THEN RStrip(SubSeq(s, 1, Len(s) - 1)) ELSE s

\* str.strip()
Strip(s) == RStrip(LStrip(s))

\* str.lower() on the characters of the model: the ASCII capitals
LowerChar(c) == IF c \in 65..90 THEN c + 32 ELSE c

Lower(s) == [i \in 1..Len(s) |-> LowerChar(s[i])]

\* the operator "in" of two str: q occurs in s
Contains(s, q) ==
    \E i \in 0..(Len(s) - Len(q)) : SubSeq(s, i + 1, i + Len(q)) = q

IsLetter(c) == c \in 65..90 \/ c \in 97..122

\* [a-zA-Z0-9._%+-]
IsLocalChar(c) == IsLetter(c) \/ IsAsciiDigit(c) \/ c \in {46, 95, 37, 43, 45}

\* [a-zA-Z0-9.-]
IsDomainChar(c) == IsLetter(c) \/ IsAsciiDigit(c) \/ c \in {46, 45}

\* the pattern of Email.validate matched against all of t
EmailFullMatch(t) ==
    \E a \in 2..Len(t) : \E d \in (a + 2)..(Len(t) - 2) :
        /\ t[a] = 64
        /\ \A i \in 1..(a - 1) : IsLocalChar(t[i])
        /\ \A i \in (a + 1)..(d - 1) : IsDomainChar(t[i])
        /\ t[d] = 46
        /\ \A i \in (d + 1)..Len(t) : IsLetter(t[i])

-----------------------------------------------------------------------------
(* Optional values: None or a value *)

Some(x) == [some |-> TRUE, v |-> x]
NoneStr == [some |-> FALSE, v |-> <<>>]
NoneDate == [some |-> FALSE, v |-> [y |-> 1, m |-> 1, d |-> 1]]

-----------------------------------------------------------------------------
(* Field validators *)

\* Phone.validate
PhoneValidate(value) == IsDigit(value) /\ Len(value) = 10

\* Email.validate: re.match(pattern, value); "$" also matches just before a
\* line feed that ends the text
EmailValidate(value) ==
    \/ EmailFullMatch(value)
    \/ /\ Len(value) > 0
       /\ value[Len(value)] = 10
       /\ EmailFullMatch(SubSeq(value, 1, Len(value) - 1))

\* Address.validate (the texts of the model are all str)
AddressValidate(value) == Len(Strip(value)) > 0

-----------------------------------------------------------------------------
(* Calendar dates: datetime.date of the proleptic Gregorian calendar *)

IsLeap(y) == y % 4 = 0 /\ (y % 100 # 0 \/ y % 400 = 0)

DaysInMonth(y, m) ==
    IF m = 2 THEN (IF IsLeap(y) THEN 29 ELSE 28)
    ELSE IF m \in {4, 6, 9, 11} THEN 30 ELSE 31

\* the dates date(y, m, d) accepts
IsDate(y, m, d) ==
    y \in 1..9999 /\ m \in 1..12 /\ d >= 1 /\ d <= DaysInMonth(y, m)

MkDate(y, m, d) == [y |-> y, m |-> m, d |-> d]

DaysBeforeYear(y) ==
    (y - 1) * 365 + ((y - 1) \div 4) - ((y - 1) \div 100) + ((y - 1) \div 400)

RECURSIVE DaysBeforeMonth(_, _)
DaysBeforeMonth(y, m) ==
    IF m = 1 THEN 0 ELSE DaysBeforeMonth(y, m - 1) + DaysInMonth(y, m - 1)

\* date.toordinal(): 1 for 0001-01-01
ToOrdinal(dt) == DaysBeforeYear(dt.y) + DaysBeforeMonth(dt.y, dt.m) + dt.d

\* date.fromordinal(n)
FromOrdinal(n) ==
    LET y == CHOOSE yy \in ((n \div 366) + 1)..((n \div 365) + 1) :
                 DaysBeforeYear(yy) < n /\ n <= DaysBeforeYear(yy + 1)
        r == n - DaysBeforeYear(y)
        m == CHOOSE mm \in 1..12 :
                 /\ DaysBeforeMonth(y, mm) < r
                 /\ r <= DaysBeforeMonth(y, mm) + DaysInMonth(y, mm)
    IN  MkDate(y, m, r - DaysBeforeMonth(y, m))

\* date + timedelta(days=k)
AddDays(dt, k) == FromOrdinal(ToOrdinal(dt) + k)

\* date.weekday(): Monday is 0, Saturday 5, Sunday 6
Weekday(dt) == (ToOrdinal(dt) + 6) % 7

\* the order "<" of two dates
DateLess(a, b) ==
    \/ a.y < b.y
    \/ a.y = b.y /\ a.m < b.m
    \/ a.y = b.y /\ a.m = b.m /\ a.d < b.d

\* date.replace(year=y): the date, or ValueError "day is out of range for month"
ReplaceYear(dt, y) ==
    IF IsDate(y, dt.m, dt.d)
    THEN [ok |-> TRUE, v |-> MkDate(y, dt.m, dt.d)]
    ELSE [ok |-> FALSE, v |-> dt]

-----------------------------------------------------------------------------
(* strptime(value, "%d.%m.%Y") and strftime("%d.%m.%Y") *)

DigitVal(c) == c - 48

\* the number a text of ASCII digits writes
RECURSIVE DecValue(_)
DecValue(s) ==
    IF s = <<>> THEN 0
    ELSE 10 * DecValue(SubSeq(s, 1, Len(s) - 1)) + DigitVal(s[Len(s)])

AllAsciiDigits(s) == \A i \in 1..Len(s) : IsAsciiDigit(s[i])

\* %d and %m of strptime: one or two digits, not zero
IsDayOrMonthText(s, max) ==
    /\ Len(s) \in 1..2
    /\ AllAsciiDigits(s)
    /\ DecValue(s) \in 1..max

\* the positions of "." in s
DotsOf(s) == {i \in 1..Len(s) : s[i] = 46}

\* Birthday.__init__: the parsed date, or ValueError "Invalid date format"
ParseBirthday(value) ==
    LET dots == DotsOf(value)
        i == CHOOSE k \in dots : \A j \in dots : k <= j
        j == CHOOSE k \in dots : \A l \in dots : l <= k
        dd == SubSeq(value, 1, i - 1)
        mm == SubSeq(value, i + 1, j - 1)
        yy == SubSeq(value, j + 1, Len(value))
        bad == [ok |-> FALSE, v |-> NoneDate.v]
    IN  IF Cardinality(dots) # 2 THEN bad
        ELSE IF /\ IsDayOrMonthText(dd, 31)
                /\ IsDayOrMonthText(mm, 12)
                /\ Len(yy) = 4
                /\ AllAsciiDigits(yy)
                /\ IsDate(DecValue(yy), DecValue(mm), DecValue(dd))
             THEN [ok |-> TRUE, v |-> MkDate(DecValue(yy), DecValue(mm), DecValue(dd))]
             ELSE bad

\* the decimal digits of n > 0
RECURSIVE Decimal(_)
Decimal(n) ==
    IF n < 10 THEN <<48 + n>> ELSE Decimal(n \div 10) \o <<48 + (n % 10)>>

\* n written with at least w digits, zero-filled
RECURSIVE ZeroFill(_, _)
ZeroFill(s, w) == IF Len(s) >= w THEN s ELSE ZeroFill(<<48>> \o s, w)

\* strftime("%d.%m.%Y"). %Y is the C library's: glibc writes a year below
\* 1000 without leading zeros, other libraries zero-fill it to four digits.
Strftime(dt, zeroFillYear) ==
    ZeroFill(Decimal(dt.d), 2) \o <<46>> \o ZeroFill(Decimal(dt.m), 2) \o <<46>>
        \o (IF zeroFillYear THEN ZeroFill(Decimal(dt.y), 4) ELSE Decimal(dt.y))

-----------------------------------------------------------------------------
(* class Record.  An operation returns [rec, err]: the record after the    *)
(* call and the exception it raised ("none" when it returned).             *)

\* the messages of the ValueErrors the fields and the record raise
ErrPhone == "ValueError: Phone number must contain 10 digits"
ErrNewPhone == "ValueError: New phone number must contain 10 digits"
ErrPhoneNotFound == "ValueError: Phone number not found"
ErrEmailCtor == "ValueError: Invalid email format. Must contain '@' and domain."
ErrEmailEdit == "ValueError: Invalid email format."
ErrAddress == "ValueError: Address cannot be empty."
ErrDate == "ValueError: Invalid date format. Use DD.MM.YYYY"

Raised(rec, e) == [rec |-> rec, err |-> e]
Returned(rec) == [rec |-> rec, err |-> "none"]

\* Phone.__init__: the value kept, or the ValueError raised
NewPhone(value) ==
    IF ~PhoneValidate(value)
    THEN [err |-> ErrPhone, v |-> <<>>]
    ELSE [err |-> "none", v |-> value]

\* Record.__init__
NewRecord(name) ==
    [name |-> name, phones |-> <<>>, email |-> NoneStr, address |-> NoneStr,
     birthday |-> NoneDate]

\* add_phone appending the text before the Phone is validated
AddPhoneAppendsUnchecked(rec, phone) ==
    IF PhoneValidate(phone)
    THEN Returned([rec EXCEPT !.phones = Append(@, phone)])
    ELSE Raised([rec EXCEPT !.phones = Append(@, phone)], ErrPhone)

\* Record.add_phone: Phone(phone) is constructed, then appended
AddPhone(rec, phone) ==
    LET p == NewPhone(phone)
    IN  IF p.err = "none"
        THEN Returned([rec EXCEPT !.phones = Append(@, p.v)])
        ELSE Raised(rec, p.err)

\* Record.find_phone: the index of the first phone whose value is phone, 0 for None
FindPhone(rec, phone) ==
    LET hits == {i \in 1..Len(rec.phones) : rec.phones[i] = phone}
    IN  IF hits = {} THEN 0 ELSE CHOOSE i \in hits : \A j \in hits : i <= j

\* the sequence without its element at index i
RemoveAt(s, i) == SubSeq(s, 1, i - 1) \o SubSeq(s, i + 1, Len(s))

\* Record.remove_phone
RemovePhone(rec, phone) ==
    LET i == FindPhone(rec, phone)
    IN  IF i # 0
        THEN Returned([rec EXCEPT !.phones = RemoveAt(@, i)])
        ELSE Raised(rec, ErrPhoneNotFound)

\* edit_phone replacing every phone equal to old_phone
EditPhoneReplacesAll(rec, old_phone, new_phone) ==
    LET i == FindPhone(rec, old_phone)
    IN  IF i # 0
        THEN IF ~PhoneValidate(new_phone)
             THEN Raised(rec, ErrNewPhone)
             ELSE Returned([rec EXCEPT !.phones =
                      [k \in 1..Len(@) |-> IF @[k] = old_phone THEN new_phone ELSE @[k]]])
        ELSE Raised(rec, ErrPhoneNotFound)

\* Record.edit_phone
EditPhone(rec, old_phone, new_phone) ==
    LET i == FindPhone(rec, old_phone)
    IN  IF i # 0
        THEN IF ~PhoneValidate(new_phone)
             THEN Raised(rec, ErrNewPhone)
             ELSE Returned([rec EXCEPT !.phones[i] = new_phone])
        ELSE Raised(rec, ErrPhoneNotFound)

\* Record.add_email: Email.__init__ strips and lower-cases, then validates
AddEmail(rec, email) ==
    LET value == Lower(Strip(email))
    IN  IF EmailValidate(value)
        THEN Returned([rec EXCEPT !.email = Some(value)])
        ELSE Raised(rec, ErrEmailCtor)

\* Record.edit_email: validates the text as given, then constructs the Email
EditEmail(rec, new_email) ==
    IF ~EmailValidate(new_email)
    THEN Raised(rec, ErrEmailEdit)
    ELSE AddEmail(rec, new_email)

\* Record.add_address: Address.__init__ validates and keeps the value as given
AddAddress(rec, address) ==
    IF AddressValidate(address)
    THEN Returned([rec EXCEPT !.address = Some(address)])
    ELSE Raised(rec, ErrAddress)

\* Record.edit_address
EditAddress(rec, new_address) ==
    IF ~AddressValidate(new_address)
    THEN Raised(rec, ErrAddress)
    ELSE AddAddress(rec, new_address)

\* Record.add_birthday
AddBirthday(rec, birthday) ==
    LET p == ParseBirthday(birthday)
    IN  IF p.ok
        THEN Returned([rec EXCEPT !.birthday = Some(p.v)])
        ELSE Raised(rec, ErrDate)

\* Record.to_dict: the portable form. None is NoneStr.
ToDict(rec, zeroFillYear) ==
    [name |-> rec.name,
     phones |-> rec.phones,
     email |-> rec.email,
     address |-> rec.address,
     birthday |-> IF rec.birthday.some
                  THEN Some(Strftime(rec.birthday.v, zeroFillYear))
                  ELSE NoneStr]

\* "if data.get(key)": the value is neither None nor the empty text
Truthy(opt) == opt.some /\ opt.v # <<>>

\* the loop "for phone in data.get('phones', []): record.add_phone(phone)",
\* ended by the first exception
RECURSIVE AddPhones(_, _)
AddPhones(rec, phones) ==
    IF phones = <<>> THEN Returned(rec)
    ELSE LET r == AddPhone(rec, Head(phones))
         IN  IF r.err # "none" THEN r ELSE AddPhones(r.rec, Tail(phones))

\* Record.from_dict
FromDict(data) ==
    LET r1 == AddPhones(NewRecord(data.name), data.phones)
        r2 == IF r1.err # "none" THEN r1
              ELSE IF Truthy(data.email) THEN AddEmail(r1.rec, data.email.v) ELSE r1
        r3 == IF r2.err # "none" THEN r2
              ELSE IF Truthy(data.address) THEN AddAddress(r2.rec, data.address.v) ELSE r2
        r4 == IF r3.err # "none" THEN r3
              ELSE IF Truthy(data.birthday) THEN AddBirthday(r3.rec, data.birthday.v) ELSE r3
    IN  r4

-----------------------------------------------------------------------------
(* Inputs of the record operations *)

\* "Ann", "Bob"
Ann == <<65, 110, 110>>
Bob == <<66, 111, 98>>
Names == {Ann, Bob}

PhoneArgs == {P1, PU, PShort}

\* "a@b.co"
E1 == <<97, 64, 98, 46, 99, 111>>
\* " K@b.co ": valid once stripped and lower-cased
E2 == <<32, 75, 64, 98, 46, 99, 111, 32>>
\* "a@b.co" followed by a line feed
E3 == <<97, 64, 98, 46, 99, 111, 10>>
\* "a@b": no top-level domain
E4 == <<97, 64, 98>>
EmailArgs == {E1, E2, E3, E4}

\* "Kyiv"
A1 == <<75, 121, 105, 118>>
\* " Kyiv ": surrounded by spaces
A2 == <<32, 75, 121, 105, 118, 32>>
\* "  ": blank
A3 == <<32, 32>>
AddressArgs == {A1, A2, A3}

\* "29.02.2000"
B1 == <<50, 57, 46, 48, 50, 46, 50, 48, 48, 48>>
\* "1.3.2001": day and month not zero-filled
B2 == <<49, 46, 51, 46, 50, 48, 48, 49>>
\* "31.02.2000": no such day
B3 == <<51, 49, 46, 48, 50, 46, 50, 48, 48, 48>>
\* "01.01.0999": a year below 1000
B4 == <<48, 49, 46, 48, 49, 46, 48, 57, 57, 57>>
BirthdayArgs == {B1, B2, B3, B4}

\* values of the variables a specification does not use
IdleRecord == NewRecord(<<>>)
IdleToday == MkDate(2023, 1, 1)
IdleResult == [op |-> "init", args |-> <<>>, err |-> "none", value |-> <<>>]

-----------------------------------------------------------------------------
(* Spec: one Record under every sequence of its operations *)

OpResult(op, args, r) == [op |-> op, args |-> args, err |-> r.err, value |-> r.rec]

Init ==
    /\ record \in {NewRecord(n) : n \in Names}
    /\ raw = <<>>
    /\ book = <<>>
    /\ today = IdleToday
    /\ pc = "idle"
    /\ file = <<>>
    /\ result = IdleResult

RecordStep(op, args, r) ==
    /\ record' = r.rec
    /\ result' = OpResult(op, args, r)
    /\ UNCHANGED <<raw, book, today, pc, file>>

DoAddPhone ==
    \E p \in PhoneArgs :
        /\ Len(record.phones) < MaxPhones
        /\ RecordStep("add_phone", <<p>>, AddPhone(record, p))

DoRemovePhone ==
    \E p \in PhoneArgs : RecordStep("remove_phone", <<p>>, RemovePhone(record, p))

DoEditPhone ==
    \E old \in PhoneArgs : \E new \in PhoneArgs :
        RecordStep("edit_phone", <<old, new>>, EditPhone(record, old, new))

DoAddEmail ==
    \E e \in EmailArgs : RecordStep("add_email", <<e>>, AddEmail(record, e))

DoEditEmail ==
    \E e \in EmailArgs : RecordStep("edit_email", <<e>>, EditEmail(record, e))

DoAddAddress ==
    \E a \in AddressArgs : RecordStep("add_address", <<a>>, AddAddress(record, a))

DoEditAddress ==
    \E a \in AddressArgs : RecordStep("edit_address", <<a>>, EditAddress(record, a))

DoAddBirthday ==
    \E b \in BirthdayArgs : RecordStep("add_birthday", <<b>>, AddBirthday(record, b))

\* to_dict, then from_dict of the dict: what save_data and load_data do to a record
DoRoundTrip ==
    \E zeroFillYear \in BOOLEAN :
        /\ result' = OpResult("from_dict(to_dict)", <<>>,
                              FromDict(ToDict(record, zeroFillYear)))
        /\ UNCHANGED <<record, raw, book, today, pc, file>>

Next ==
    \/ DoAddPhone
    \/ DoRemovePhone
    \/ DoEditPhone
    \/ DoAddEmail
    \/ DoEditEmail
    \/ DoAddAddress
    \/ DoEditAddress
    \/ DoAddBirthday
    \/ DoRoundTrip

Spec == Init /\ [][Next]_vars

-----------------------------------------------------------------------------
(* Claims about one Record, checked under Spec *)

Range(s) == {s[i] : i \in 1..Len(s)}

\* the phone list after edit_phone(old, new) succeeded on the list before: the
\* first phone equal to old is new, everything else is where it was
FirstReplaced(before, after, old, new) ==
    /\ Len(after) = Len(before)
    /\ \E i \in 1..Len(before) :
           /\ before[i] = old
           /\ \A j \in 1..(i - 1) : before[j] # old
           /\ after[i] = new
           /\ \A j \in 1..Len(before) : j # i => after[j] = before[j]

\* C4 as stated: Record.edit_phone(old, new) replaces the first stored phone
\* equal to old by new at the same index and changes nothing else when old is
\* stored and new is valid; it fails with the not-found error when old is
\* absent and with the invalid-phone error when new is invalid, and a failed
\* call leaves the phone list as it was.
C4_EditPhoneAsStated ==
    [][result'.op = "edit_phone" =>
        LET old == result'.args[1]
            new == result'.args[2]
        IN  /\ (old \in Range(record.phones) /\ PhoneValidate(new)) =>
                   /\ result'.err = "none"
                   /\ FirstReplaced(record.phones, record'.phones, old, new)
                   /\ record' = [record EXCEPT !.phones = record'.phones]
            /\ old \notin Range(record.phones) =>
                   result'.err = ErrPhoneNotFound /\ record' = record
            /\ ~PhoneValidate(new) =>
                   result'.err = ErrNewPhone /\ record' = record
    ]_vars

\* C4 amended: as C4, but the invalid-phone error is raised when new is invalid
\* and old is stored; when old is absent the error is the not-found error
\* whatever new is.
C4_EditPhone ==
    [][result'.op = "edit_phone" =>
        LET old == result'.args[1]
            new == result'.args[2]
        IN  /\ (old \in Range(record.phones) /\ PhoneValidate(new)) =>
                   /\ result'.err = "none"
                   /\ FirstReplaced(record.phones, record'.phones, old, new)
                   /\ record' = [record EXCEPT !.phones = record'.phones]
            /\ old \notin Range(record.phones) =>
                   result'.err = ErrPhoneNotFound /\ record' = record
            /\ (old \in Range(record.phones) /\ ~PhoneValidate(new)) =>
                   result'.err = ErrNewPhone /\ record' = record
    ]_vars

\* edit_phone succeeded and a later duplicate of the old phone is still stored
\* behind the replaced one
C4_Witness ==
    /\ result.op = "edit_phone"
    /\ result.err = "none"
    /\ result.args[1] # result.args[2]
    /\ \E i \in 1..Len(record.phones) : \E j \in (i + 1)..Len(record.phones) :
           /\ record.phones[i] = result.args[2]
           /\ record.phones[j] = result.args[1]

\* C5: for every record the operations reach, from_dict(to_dict(record))
\* succeeds and yields a record with the same name, phones, email, address and
\* birthday.
C5_RoundTrip ==
    result.op = "from_dict(to_dict)" =>
        result.err = "none" /\ result.value = record

\* every stored field is a value its validator accepts
ValidRecord(rec) ==
    /\ \A i \in 1..Len(rec.phones) : PhoneValidate(rec.phones[i])
    /\ rec.email.some => EmailValidate(rec.email.v)
    /\ rec.address.some => AddressValidate(rec.address.v)
    /\ rec.birthday.some => IsDate(rec.birthday.v.y, rec.birthday.v.m, rec.birthday.v.d)

\* C7: a record is never partially invalid: an operation that raises leaves
\* name, phones, email, address and birthday as they were, and after every
\* operation every stored phone, email, address and birthday is a value its
\* validator accepts.
C7_NeverPartiallyInvalid ==
    [][/\ result'.err # "none" => record' = record
       /\ ValidRecord(record')
    ]_vars

\* an operation has just failed on a record that holds phones and every
\* optional field
C7_Witness ==
    /\ result.err # "none"
    /\ result.op \in {"add_phone", "remove_phone", "edit_phone", "add_email",
                      "edit_email", "add_address", "edit_address", "add_birthday"}
    /\ Len(record.phones) > 1
    /\ record.email.some
    /\ record.address.some
    /\ record.birthday.some

\* C8: add_email and edit_email accept the same texts: raw is accepted exactly
\* when raw, stripped and lower-cased, matches the e-mail pattern, the stored
\* value is that text, and add_email(raw) and edit_email(raw) either both
\* succeed with the same stored e-mail or both fail.
C8_SameAcceptance ==
    result.op \in {"add_email", "edit_email"} =>
        LET norm == Lower(Strip(result.args[1]))
        IN  /\ result.err = "none" <=> EmailFullMatch(norm)
            /\ result.err = "none" => record.email = Some(norm)

\* text with no whitespace at either end and at least one character
IsTrimmedNonEmpty(s) == s # <<>> /\ ~IsSpace(s[1]) /\ ~IsSpace(s[Len(s)])

\* C9: a stored address is non-empty trimmed text after every successful
\* add_address, edit_address and from_dict.
C9_AddressTrimmed ==
    /\ record.address.some => IsTrimmedNonEmpty(record.address.v)
    /\ (result.op = "from_dict(to_dict)" /\ result.err = "none"
            /\ result.value.address.some) =>
           IsTrimmedNonEmpty(result.value.address.v)

-----------------------------------------------------------------------------
(* SpecPhone: the Phone constructor on every text of at most MaxRawLen     *)
(* characters over an ASCII digit, a letter and a non-ASCII digit          *)

\* "0", "a", ARABIC-INDIC DIGIT THREE
PhoneChars == {48, 97, 1635}

PhoneTexts == UNION {[1..n -> PhoneChars] : n \in 0..MaxRawLen}

InitPhone ==
    /\ raw \in PhoneTexts
    /\ record = IdleRecord
    /\ book = <<>>
    /\ today = IdleToday
    /\ pc = "idle"
    /\ file = <<>>
    /\ result = IdleResult

ConstructPhone ==
    /\ result.op = "init"
    /\ result' = [op |-> "Phone", args |-> <<raw>>, err |-> NewPhone(raw).err,
                  value |-> NewPhone(raw).v]
    /\ UNCHANGED <<record, raw, book, today, pc, file>>

NextPhone == ConstructPhone

SpecPhone == InitPhone /\ [][NextPhone]_vars

\* C6: Phone construction succeeds exactly for the texts of exactly 10 ASCII
\* decimal digits and fails with the validation error for every other text.
C6_PhoneExactlyTenAsciiDigits ==
    result.op = "Phone" =>
        /\ result.err = "none" <=> (Len(raw) = 10 /\ AllAsciiDigits(raw))
        /\ result.err # "none" => result.err = ErrPhone

-----------------------------------------------------------------------------
(* class AddressBook: get_birthdays_in_days *)

ErrNegativeDays == "ValueError: Number of days cannot be negative."
ErrDayOutOfRange == "ValueError: day is out of range for month"

\* the order "<" of two str: by code point, a proper prefix first
RECURSIVE StrLess(_, _)
StrLess(a, b) ==
    IF b = <<>> THEN FALSE
    ELSE IF a = <<>> THEN TRUE
    ELSE IF Head(a) # Head(b) THEN Head(a) < Head(b)
    ELSE StrLess(Tail(a), Tail(b))

\* one entry put into a list sorted by name, behind the entries not after it
RECURSIVE InsertByName(_, _)
InsertByName(sorted, e) ==
    IF sorted = <<>> THEN <<e>>
    ELSE IF StrLess(e.name, Head(sorted).name) THEN <<e>> \o sorted
    ELSE <<Head(sorted)>> \o InsertByName(Tail(sorted), e)

\* result.sort(key=lambda x: x["name"]): a stable sort
RECURSIVE SortByName(_)
SortByName(entries) ==
    IF entries = <<>> THEN <<>>
    ELSE InsertByName(SortByName(SubSeq(entries, 1, Len(entries) - 1)),
                      entries[Len(entries)])

\* lines 209-213: a Saturday moves two days on, a Sunday one
CongratulationDate(date) ==
    IF Weekday(date) = 5 THEN AddDays(date, 2)
    ELSE IF Weekday(date) = 6 THEN AddDays(date, 1)
    ELSE date

\* lines 203-206 for one birthday: this year's occurrence, next year's when it
\* has passed; either replace() may raise
BirthdayThisYear(bday, td) ==
    LET first == ReplaceYear(bday, td.y)
    IN  IF ~first.ok THEN first
        ELSE IF DateLess(first.v, td) THEN ReplaceYear(first.v, td.y + 1)
        ELSE first

\* the loop of lines 200-217 over the records left, ended by an exception
RECURSIVE BirthdayLoop(_, _, _, _)
BirthdayLoop(recs, td, target, acc) ==
    IF recs = <<>> THEN [err |-> "none", v |-> acc]
    ELSE LET rec == Head(recs)
             occ == BirthdayThisYear(rec.birthday.v, td)
         IN  IF ~rec.birthday.some THEN BirthdayLoop(Tail(recs), td, target, acc)
             ELSE IF ~occ.ok THEN [err |-> ErrDayOutOfRange, v |-> <<>>]
             ELSE IF occ.v = target
                  THEN BirthdayLoop(Tail(recs), td, target,
                           Append(acc, [name |-> rec.name,
                                        congratulation_date |->
                                            Strftime(CongratulationDate(occ.v), TRUE)]))
                  ELSE BirthdayLoop(Tail(recs), td, target, acc)

\* AddressBook.get_birthdays_in_days
GetBirthdaysInDays(bk, td, days) ==
    IF days < 0 THEN [err |-> ErrNegativeDays, v |-> <<>>]
    ELSE LET r == BirthdayLoop(bk, td, AddDays(td, days), <<>>)
         IN  IF r.err # "none" THEN r ELSE [err |-> "none", v |-> SortByName(r.v)]

-----------------------------------------------------------------------------
(* SpecBirthdays: get_birthdays_in_days on every day of YearSpan years, on  *)
(* books of at most MaxBook records                                        *)

Years == 2023..(2023 + YearSpan - 1)

TodayDates ==
    {dt \in [y : Years, m : 1..12, d : 1..31] : IsDate(dt.y, dt.m, dt.d)}

\* 28.02.2000, 29.02.2000, 01.03.1990, 30.12.1985, 31.12.1985, 01.01.1991
BirthdayDates ==
    {MkDate(2000, 2, 28), MkDate(2000, 2, 29), MkDate(1990, 3, 1),
     MkDate(1985, 12, 30), MkDate(1985, 12, 31), MkDate(1991, 1, 1)}

\* the records Record(name), with or without add_birthday("DD.MM.YYYY")
BirthdayRecords(name) ==
    {NewRecord(name)}
        \cup {AddBirthday(NewRecord(name), Strftime(dt, TRUE)).rec : dt \in BirthdayDates}

\* the books of at most MaxBook of the records recs, under distinct names, in
\* every insertion order
BooksOf(recs) ==
    {b \in UNION {[1..k -> recs] : k \in 0..MaxBook} :
        \A i \in 1..Len(b) : \A j \in 1..Len(b) : i # j => b[i].name # b[j].name}

BirthdayBooks == BooksOf(UNION {BirthdayRecords(n) : n \in Names})

InitBirthdays ==
    /\ today \in TodayDates
    /\ book \in BirthdayBooks
    /\ record = IdleRecord
    /\ raw = <<>>
    /\ pc = "idle"
    /\ file = <<>>
    /\ result = IdleResult

QueryBirthdays ==
    \E days \in (-1)..MaxDays :
        /\ result.op = "init"
        /\ LET r == GetBirthdaysInDays(book, today, days)
           IN  result' = [op |-> "get_birthdays_in_days", args |-> <<days>>,
                          err |-> r.err, value |-> r.v]
        /\ UNCHANGED <<record, raw, book, today, pc, file>>

NextBirthdays == QueryBirthdays

SpecBirthdays == InitBirthdays /\ [][NextBirthdays]_vars

\* the dates with the month and day of bday in the year of td or the next
\* one, not before td
OccurrencesFrom(bday, td) ==
    {dt \in {MkDate(y, bday.m, bday.d) : y \in {td.y, td.y + 1}} :
        IsDate(dt.y, dt.m, dt.d) /\ ~DateLess(dt, td)}

\* the next occurrence of bday on or after td is td + days
NextOccurrenceIs(bday, td, days) ==
    LET occ == OccurrencesFrom(bday, td)
    IN  /\ occ # {}
        /\ AddDays(td, days) \in occ
        /\ \A dt \in occ : ~DateLess(dt, AddDays(td, days))

\* the entries of a result under the name of rec
EntriesOf(entries, rec) == {i \in 1..Len(entries) : entries[i].name = rec.name}

\* what C1 says of the entries the query returns for the book
EntriesAsClaimed(entries, bk, td, days) ==
    \A i \in 1..Len(bk) :
        /\ EntriesOf(entries, bk[i]) # {} <=>
               (bk[i].birthday.some /\ NextOccurrenceIs(bk[i].birthday.v, td, days))
        /\ \A k \in EntriesOf(entries, bk[i]) :
               LET date == AddDays(td, days)
                   shifted == IF Weekday(date) = 5 THEN AddDays(date, 2)
                              ELSE IF Weekday(date) = 6 THEN AddDays(date, 1)
                              ELSE date
               IN  /\ entries[k].congratulation_date = Strftime(shifted, TRUE)
                   /\ Weekday(date) \in {5, 6} => Weekday(shifted) = 0

\* C1: for every book, every today and every n >= 0, get_birthdays_in_days(n)
\* returns an entry for a record exactly when the record has a birthday whose
\* next occurrence on or after today is today + n days; the entry's
\* congratulation date is that date moved to the Monday after a Saturday or
\* Sunday and the date itself on Monday to Friday.
C1_BirthdaysInDays ==
    (result.op = "get_birthdays_in_days" /\ result.args[1] >= 0) =>
        /\ result.err = "none"
        /\ EntriesAsClaimed(result.value, book, today, result.args[1])

\* C2: for every n >= 0 and every book, also one that holds a 29 February
\* birthday while the year of the occurrence is not a leap year,
\* get_birthdays_in_days(n) completes with a result list: the query does not
\* fail because of such a record.
C2_LeapDayResolved ==
    (result.op = "get_birthdays_in_days" /\ result.args[1] >= 0) =>
        result.err = "none"

-----------------------------------------------------------------------------
(* class AddressBook: search *)

\* "for phone in record.phones: if query_lower in phone.value"
AnyPhoneContains(rec, q) ==
    \E i \in 1..Len(rec.phones) : Contains(rec.phones[i], q)

\* the tests of lines 232, 239, 248, 253 and 258-259, in that order
FieldMatches(rec, q, zeroFillYear) ==
    <<Contains(Lower(rec.name), q),
      AnyPhoneContains(rec, q),
      rec.email.some /\ Contains(Lower(rec.email.v), q),
      rec.address.some /\ Contains(Lower(rec.address.v), q),
      rec.birthday.some /\ Contains(Strftime(rec.birthday.v, zeroFillYear), q)>>

\* the loop body without its "continue" and "break": one append for every
\* field that matches
SearchRecordEveryField(rec, q, zeroFillYear) ==
    LET hit == FieldMatches(rec, q, zeroFillYear)
        One(i) == IF hit[i] THEN <<rec>> ELSE <<>>
    IN  One(1) \o One(2) \o One(3) \o One(4) \o One(5)

\* the body of the loop of lines 230-260 for one record: what it appends
SearchRecord(rec, q, zeroFillYear) ==
    LET hit == FieldMatches(rec, q, zeroFillYear)
    IN  IF hit[1] THEN <<rec>>
        ELSE IF hit[2] THEN <<rec>>
        ELSE IF hit[3] THEN <<rec>>
        ELSE IF hit[4] THEN <<rec>>
        ELSE IF hit[5] THEN <<rec>>
        ELSE <<>>

RECURSIVE SearchLoop(_, _, _)
SearchLoop(recs, q, zeroFillYear) ==
    IF recs = <<>> THEN <<>>
    ELSE SearchRecord(Head(recs), q, zeroFillYear)
             \o SearchLoop(Tail(recs), q, zeroFillYear)

\* AddressBook.search
Search(bk, query, zeroFillYear) == SearchLoop(bk, Lower(query), zeroFillYear)

-----------------------------------------------------------------------------
(* SpecSearch: search on books of at most MaxBook records *)

\* "Kim9"
Kim == <<75, 105, 109, 57>>
SearchNames == {Ann, Bob, Kim}

\* "0931119999"
P2 == <<48, 57, 51, 49, 49, 49, 57, 57, 57, 57>>

WithPhones(rec) == AddPhone(AddPhone(rec, P1).rec, P2).rec
WithContact(rec) == AddAddress(AddEmail(rec, E1).rec, A1).rec

\* the records of one name: bare, with two phones, with e-mail and address,
\* with a birthday, with everything, with a birthday of the year 999
SearchRecords(name) ==
    {NewRecord(name),
     WithPhones(NewRecord(name)),
     WithContact(NewRecord(name)),
     AddBirthday(NewRecord(name), B1).rec,
     AddBirthday(WithContact(WithPhones(NewRecord(name))), B1).rec,
     AddBirthday(NewRecord(name), B4).rec}

SearchBooks == BooksOf(UNION {SearchRecords(n) : n \in SearchNames})

\* "", "an", "AN", "b", "K", "0", "9", ".", "@", "2000", "0999", "x"
Queries ==
    {<<>>, <<97, 110>>, <<65, 78>>, <<98>>, <<75>>, <<48>>, <<57>>, <<46>>,
     <<64>>, <<50, 48, 48, 48>>, <<48, 57, 57, 57>>, <<120>>}

InitSearch ==
    /\ book \in SearchBooks
    /\ record = IdleRecord
    /\ raw = <<>>
    /\ today = IdleToday
    /\ pc = "idle"
    /\ file = <<>>
    /\ result = IdleResult

DoSearch ==
    \E q \in Queries : \E zeroFillYear \in BOOLEAN :
        /\ result.op = "init"
        /\ result' = [op |-> "search", args |-> <<q, zeroFillYear>>, err |-> "none",
                      value |-> Search(book, q, zeroFillYear)]
        /\ UNCHANGED <<record, raw, book, today, pc, file>>

NextSearch == DoSearch

SpecSearch == InitSearch /\ [][NextSearch]_vars

\* lower-cased q occurs in the lower-cased name, in some phone, in the e-mail,
\* in the lower-cased address or in the birthday as strftime("%d.%m.%Y")
\* writes it
MatchesQuery(rec, q, zeroFillYear) ==
    \/ Contains(Lower(rec.name), Lower(q))
    \/ \E ph \in Range(rec.phones) : Contains(ph, Lower(q))
    \/ rec.email.some /\ Contains(rec.email.v, Lower(q))
    \/ rec.address.some /\ Contains(Lower(rec.address.v), Lower(q))
    \/ rec.birthday.some /\ Contains(Strftime(rec.birthday.v, zeroFillYear), Lower(q))

-----------------------------------------------------------------------------
(* The command layer: parse_input, input_error and the command handlers *)

\* the text before the first whitespace of s
RECURSIVE FirstWord(_)
FirstWord(s) ==
    IF s = <<>> \/ IsSpace(Head(s)) THEN <<>>
    ELSE <<Head(s)>> \o FirstWord(Tail(s))

\* str.split(): the maximal runs of non-whitespace, in order
RECURSIVE Split(_)
Split(s) ==
    LET t == LStrip(s)
        w == FirstWord(t)
    IN  IF t = <<>> THEN <<>>
        ELSE <<w>> \o Split(SubSeq(t, Len(w) + 1, Len(t)))

\* " ".join(words)
RECURSIVE Join(_)
Join(words) ==
    IF words = <<>> THEN <<>>
    ELSE IF Len(words) = 1 THEN words[1]
    ELSE words[1] \o <<32>> \o Join(Tail(words))

\* "add"
W_add == <<97, 100, 100>>
\* "contact"
W_contact == <<99, 111, 110, 116, 97, 99, 116>>
\* "change"
W_change == <<99, 104, 97, 110, 103, 101>>
\* "delete"
W_delete == <<100, 101, 108, 101, 116, 101>>
\* "show"
W_show == <<115, 104, 111, 119>>
\* "all"
W_all == <<97, 108, 108>>
\* "birthday"
W_birthday == <<98, 105, 114, 116, 104, 100, 97, 121>>
\* "birthdays"
W_birthdays == <<98, 105, 114, 116, 104, 100, 97, 121, 115>>
\* "email"
W_email == <<101, 109, 97, 105, 108>>
\* "address"
W_address == <<97, 100, 100, 114, 101, 115, 115>>
\* "search"
W_search == <<115, 101, 97, 114, 99, 104>>
\* "hello"
W_hello == <<104, 101, 108, 108, 111>>
\* "help"
W_help == <<104, 101, 108, 112>>
\* "close"
W_close == <<99, 108, 111, 115, 101>>
\* "exit"
W_exit == <<101, 120, 105, 116>>

\* the two-word commands, written "add contact"
C_add_contact == Join(<<W_add, W_contact>>)
C_change_contact == Join(<<W_change, W_contact>>)
C_delete_contact == Join(<<W_delete, W_contact>>)
C_show_all == Join(<<W_show, W_all>>)
C_add_birthday == Join(<<W_add, W_birthday>>)
C_show_birthday == Join(<<W_show, W_birthday>>)
C_change_birthday == Join(<<W_change, W_birthday>>)
C_add_email == Join(<<W_add, W_email>>)
C_change_email == Join(<<W_change, W_email>>)
C_add_address == Join(<<W_add, W_address>>)
C_change_address == Join(<<W_change, W_address>>)

\* TWO_WORD_COMMANDS
TwoWordCommands ==
    {C_show_all, C_add_contact, C_change_contact, C_add_birthday, C_change_birthday,
     C_show_birthday, C_add_email, C_change_email, C_add_address, C_change_address,
     C_delete_contact}

\* parse_input: the command and its arguments
ParseInput(user_input) ==
    LET parts == Split(user_input)
        two == Lower(Join(<<parts[1], parts[2]>>))
    IN  IF Len(parts) = 0 THEN [cmd |-> <<>>, args |-> <<>>]
        ELSE IF Len(parts) >= 2 /\ two \in TwoWordCommands
             THEN [cmd |-> two, args |-> SubSeq(parts, 3, Len(parts))]
             ELSE [cmd |-> Lower(Strip(parts[1])), args |-> Tail(parts)]

\* AddressBook.find: the index of the record under name, 0 for None
Find(bk, name) ==
    IF \E i \in 1..Len(bk) : bk[i].name = name
    THEN CHOOSE i \in 1..Len(bk) : bk[i].name = name
    ELSE 0

\* AddressBook.add_record: a new key goes last, a known key keeps its place
AddRecord(bk, rec) ==
    IF Find(bk, rec.name) = 0 THEN Append(bk, rec)
    ELSE [bk EXCEPT ![Find(bk, rec.name)] = rec]

\* what a handler did: the book after it, the exception that left it
\* (class "none" when it returned) and the text it returned
Ret(bk, msg, data) ==
    [book |-> bk, exc |-> [class |-> "none", text |-> ""], msg |-> msg, data |-> data]
Raise(bk, class, text) ==
    [book |-> bk, exc |-> [class |-> class, text |-> text], msg |-> "", data |-> <<>>]

\* the exceptions of the handlers
NotEnoughArguments(bk) == Raise(bk, "IndexError", "Not enough arguments")
ContactNotFound(bk) == Raise(bk, "KeyError", "Contact not found")

\* a record operation inside a handler: its ValueError leaves the handler
RecordOp(bk, i, r, msg) ==
    IF r.err # "none"
    THEN Raise([bk EXCEPT ![i] = r.rec], "ValueError", r.err)
    ELSE Ret([bk EXCEPT ![i] = r.rec], msg, <<>>)

\* input_error: ValueError, KeyError and IndexError become "Error: ...", any
\* other Exception "Unexpected error: ..."; a BaseException passes
InputError(h) ==
    IF h.exc.class \in {"ValueError", "KeyError", "IndexError"}
    THEN Ret(h.book, "Error", h.exc)
    ELSE IF h.exc.class \in {"none", "KeyboardInterrupt"} THEN h
    ELSE Ret(h.book, "Unexpected error", h.exc)

\* add_contact, before input_error
AddContactBody(args, bk) ==
    IF Len(args) < 2 THEN NotEnoughArguments(bk)
    ELSE LET name == args[1]
             phone == args[2]
             found == Find(bk, name)
             bk1 == IF found = 0 THEN AddRecord(bk, NewRecord(name)) ELSE bk
             message == IF found = 0 THEN "Contact added." ELSE "Contact updated."
             i == Find(bk1, name)
         IN  IF phone # <<>>
             THEN RecordOp(bk1, i, AddPhone(bk1[i], phone), message)
             ELSE Ret(bk1, message, <<>>)

\* change_contact, before input_error
ChangeContactBody(args, bk) ==
    IF Len(args) < 3 THEN NotEnoughArguments(bk)
    ELSE LET i == Find(bk, args[1])
         IN  IF i = 0 THEN ContactNotFound(bk)
             ELSE RecordOp(bk, i, EditPhone(bk[i], args[2], args[3]), "Contact updated.")

\* delete_contact, before input_error (AddressBook.delete raises KeyError)
DeleteContactBody(args, bk) ==
    IF Len(args) < 1 THEN NotEnoughArguments(bk)
    ELSE LET i == Find(bk, args[1])
         IN  IF i = 0 THEN ContactNotFound(bk)
             ELSE Ret(RemoveAt(bk, i), "Contact deleted.", <<>>)

\* show_all, before input_error
ShowAllBody(args, bk) ==
    IF bk = <<>> THEN Ret(bk, "No contacts saved.", <<>>)
    ELSE Ret(bk, "All contacts:", bk)

\* add_birthday, before input_error
AddBirthdayBody(args, bk) ==
    IF Len(args) < 2 THEN NotEnoughArguments(bk)
    ELSE LET i == Find(bk, args[1])
         IN  IF i = 0 THEN ContactNotFound(bk)
             ELSE RecordOp(bk, i, AddBirthday(bk[i], args[2]), "Birthday added.")

\* change_birthday, before input_error
ChangeBirthdayBody(args, bk) ==
    IF Len(args) < 2 THEN NotEnoughArguments(bk)
    ELSE LET i == Find(bk, args[1])
         IN  IF i = 0 THEN ContactNotFound(bk)
             ELSE IF ~bk[i].birthday.some
                  THEN Raise(bk, "ValueError", "Contact has no birthday")
                  ELSE RecordOp(bk, i, AddBirthday(bk[i], args[2]), "Birthday updated.")

\* show_birthday, before input_error
ShowBirthdayBody(args, bk, zeroFillYear) ==
    IF Len(args) < 1 THEN NotEnoughArguments(bk)
    ELSE LET i == Find(bk, args[1])
         IN  IF i = 0 THEN ContactNotFound(bk)
             ELSE IF ~bk[i].birthday.some THEN Ret(bk, "has no birthday set.", <<>>)
             ELSE Ret(bk, "'s birthday:", Strftime(bk[i].birthday.v, zeroFillYear))

\* int(text) for a text of ASCII digits behind an optional sign; every other
\* text of the model raises ValueError
ParseInt(text) ==
    LET signed == text # <<>> /\ Head(text) \in {43, 45}
        digits == IF signed THEN Tail(text) ELSE text
    IN  IF digits # <<>> /\ AllAsciiDigits(digits)
        THEN [ok |-> TRUE,
              v |-> IF signed /\ Head(text) = 45 THEN 0 - DecValue(digits)
                    ELSE DecValue(digits)]
        ELSE [ok |-> FALSE, v |-> 0]

\* birthdays, before input_error
BirthdaysBody(args, bk, td) ==
    LET n == IF args = <<>> THEN [ok |-> TRUE, v |-> 7] ELSE ParseInt(args[1])
        r == GetBirthdaysInDays(bk, td, n.v)
    IN  IF ~n.ok \/ n.v < 0 THEN Ret(bk, "Error: Enter a valid number", <<>>)
        ELSE IF r.err # "none" THEN Raise(bk, "ValueError", r.err)
        ELSE IF r.v = <<>> THEN Ret(bk, "No birthdays in N days.", <<>>)
        ELSE Ret(bk, "Birthdays in N days:", r.v)

\* add_email, before input_error
AddEmailBody(args, bk) ==
    IF Len(args) < 2 THEN NotEnoughArguments(bk)
    ELSE LET i == Find(bk, args[1])
         IN  IF i = 0 THEN ContactNotFound(bk)
             ELSE RecordOp(bk, i, AddEmail(bk[i], args[2]), "Email added.")

\* change_email, before input_error
ChangeEmailBody(args, bk) ==
    IF Len(args) < 2 THEN NotEnoughArguments(bk)
    ELSE LET i == Find(bk, args[1])
         IN  IF i = 0 THEN ContactNotFound(bk)
             ELSE IF ~bk[i].email.some
                  THEN Raise(bk, "ValueError", "Contact has no email")
                  ELSE RecordOp(bk, i, EditEmail(bk[i], args[2]), "Email updated.")

\* add_address, before input_error
AddAddressBody(args, bk) ==
    IF Len(args) < 2 THEN NotEnoughArguments(bk)
    ELSE LET i == Find(bk, args[1])
         IN  IF i = 0 THEN ContactNotFound(bk)
             ELSE RecordOp(bk, i, AddAddress(bk[i], Join(Tail(args))), "Address added.")

\* change_address, before input_error
ChangeAddressBody(args, bk) ==
    IF Len(args) < 2 THEN NotEnoughArguments(bk)
    ELSE LET i == Find(bk, args[1])
         IN  IF i = 0 THEN ContactNotFound(bk)
             ELSE IF ~bk[i].address.some
                  THEN Raise(bk, "ValueError", "Contact has no address")
                  ELSE RecordOp(bk, i, EditAddress(bk[i], Join(Tail(args))),
                                "Address updated.")

\* search_contacts, before input_error
SearchContactsBody(args, bk, zeroFillYear) ==
    IF args = <<>> THEN Raise(bk, "IndexError", "Please provide a search term")
    ELSE LET found == Search(bk, Join(args), zeroFillYear)
         IN  IF found = <<>> THEN Ret(bk, "No contacts found matching", <<>>)
             ELSE Ret(bk, "Search results for", found)

\* the keys of the table "commands" of main
Commands ==
    {W_hello, W_help, W_birthdays, W_search} \cup TwoWordCommands

\* commands[command](args, book): the decorated handler
Dispatch(command, args, bk, td, zeroFillYear) ==
    IF command = W_hello THEN Ret(bk, "How can I help you?", <<>>)
    ELSE IF command = W_help THEN Ret(bk, "help text", <<>>)
    ELSE IF command = C_add_contact THEN InputError(AddContactBody(args, bk))
    ELSE IF command = C_change_contact
         THEN InputError(ChangeContactBody(args, bk))
    ELSE IF command = C_delete_contact
         THEN InputError(DeleteContactBody(args, bk))
    ELSE IF command = C_show_all THEN InputError(ShowAllBody(args, bk))
    ELSE IF command = C_add_birthday THEN InputError(AddBirthdayBody(args, bk))
    ELSE IF command = C_show_birthday
         THEN InputError(ShowBirthdayBody(args, bk, zeroFillYear))
    ELSE IF command = C_change_birthday
         THEN InputError(ChangeBirthdayBody(args, bk))
    ELSE IF command = C_add_email THEN InputError(AddEmailBody(args, bk))
    ELSE IF command = C_change_email THEN InputError(ChangeEmailBody(args, bk))
    ELSE IF command = C_add_address THEN InputError(AddAddressBody(args, bk))
    ELSE IF command = C_change_address
         THEN InputError(ChangeAddressBody(args, bk))
    ELSE IF command = W_birthdays THEN InputError(BirthdaysBody(args, bk, td))
    ELSE InputError(SearchContactsBody(args, bk, zeroFillYear))

-----------------------------------------------------------------------------
(* save_data, load_data and main.  The file system takes every write;      *)
(* json.dump and json.load keep a list of dicts of str and None as it is.  *)

NoFile == [exists |-> FALSE, data |-> <<>>]

\* save_data writing an empty list whatever the book holds
SaveDataWritesNothing(bk, zeroFillYear) == [exists |-> TRUE, data |-> <<>>]

\* save_data: the file holds the dicts of the records, in the book's order
SaveData(bk, zeroFillYear) ==
    [exists |-> TRUE, data |-> [i \in 1..Len(bk) |-> ToDict(bk[i], zeroFillYear)]]

\* the loop of lines 287-289, ended by the first exception
RECURSIVE LoadLoop(_, _)
LoadLoop(dicts, bk) ==
    IF dicts = <<>> THEN [err |-> "none", book |-> bk]
    ELSE LET r == FromDict(Head(dicts))
         IN  IF r.err # "none" THEN [err |-> r.err, book |-> bk]
             ELSE LoadLoop(Tail(dicts), AddRecord(bk, r.rec))

\* load_data: an empty book when there is no file or when loading raised
LoadData(f) ==
    IF ~f.exists THEN <<>>
    ELSE LET r == LoadLoop(f.data, <<>>)
         IN  IF r.err # "none" THEN <<>> ELSE r.book

\* command in ["close", "exit"], "close" alone
IsExitCommandCloseOnly(command) == command = W_close

\* command in ["close", "exit"]
IsExitCommand(command) == command \in {W_close, W_exit}

\* lines 611-627 for the text input() returned, stripped and parsed into p:
\* the book after it, where the loop goes, whether save_data ran, the command
\* and what was printed
MainStep(user_input, p, bk, td, zeroFillYear) ==
    LET h == Dispatch(p.cmd, p.args, bk, td, zeroFillYear)
    IN  IF user_input = <<>>
        THEN [book |-> bk, pc |-> "read", saved |-> FALSE, cmd |-> <<>>,
              msg |-> "", data |-> <<>>]
        ELSE IF IsExitCommand(p.cmd)
        THEN [book |-> bk, pc |-> "done", saved |-> TRUE, cmd |-> p.cmd,
              msg |-> "Data saved. Good bye!", data |-> <<>>]
        ELSE IF p.cmd \in Commands
        THEN [book |-> h.book, pc |-> "read", saved |-> FALSE, cmd |-> p.cmd,
              msg |-> h.msg, data |-> h.data]
        ELSE [book |-> bk, pc |-> "read", saved |-> FALSE, cmd |-> p.cmd,
              msg |-> "Invalid command", data |-> <<>>]

\* the books a KeyboardInterrupt can leave that arrives while the command p
\* is handled: before the handler changed the book, after it, or, in
\* add_contact, between add_record and add_phone.  No handler's book depends
\* on how strftime writes a year.
InterruptedBooks(user_input, p, bk, td) ==
    {bk, MainStep(user_input, p, bk, td, TRUE).book}
        \cup (IF p.cmd = C_add_contact /\ Len(p.args) >= 2 /\ Find(bk, p.args[1]) = 0
              THEN {AddRecord(bk, NewRecord(p.args[1]))}
              ELSE {})

-----------------------------------------------------------------------------
(* SpecMain: main() on every sequence of input lines, ends of input and    *)
(* interrupts                                                              *)

\* "foo", "x", "now"
W_foo == <<102, 111, 111>>
W_x == <<120>>
W_now == <<110, 111, 119>>

\* the lines the user types
MainLines ==
    {<<>>,
     <<32, 32>>,
     W_hello,
     W_foo,
     Join(<<W_add, W_contact, Ann, P1>>),
     Join(<<W_add, W_contact, Bob, PShort>>),
     Join(<<W_add, W_contact, Ann>>),
     Join(<<W_change, W_contact, Ann, P1, P2>>),
     Join(<<W_change, W_contact, Ann, P2, PShort>>),
     Join(<<W_delete, W_contact, Ann>>),
     Join(<<W_delete, W_contact, Bob>>),
     Join(<<W_show, W_all>>),
     Join(<<W_add, W_birthday, Ann, B1>>),
     Join(<<W_add, W_birthday, Ann, B3>>),
     Join(<<W_change, W_birthday, Ann, B2>>),
     Join(<<W_show, W_birthday, Ann>>),
     W_birthdays,
     Join(<<W_birthdays, W_x>>),
     Join(<<W_add, W_email, Ann, E1>>),
     Join(<<W_add, W_email, Ann, E4>>),
     Join(<<W_change, W_email, Ann, E4>>),
     Join(<<W_add, W_address, Ann, A1>>),
     Join(<<W_add, W_address, Ann>>),
     Join(<<W_change, W_address, Ann, A1>>),
     Join(<<W_search, Lower(Ann)>>),
     W_search,
     W_close,
     \* "  EXIT "
     <<32, 32, 69, 88, 73, 84, 32>>,
     Join(<<W_exit, W_now>>)}

\* user_input = input().strip() and parse_input(user_input) of every line
Typed ==
    [line \in MainLines |->
        [user_input |-> Strip(line), p |-> ParseInput(Strip(line))]]

\* 22.02.2023: seven days on is 1 March 2023
MainDays == {MkDate(2023, 2, 22)}

\* the files main() may find: none, or one written by an earlier run
MainFiles == {NoFile, SaveData(<<WithPhones(NewRecord(Ann))>>, TRUE)}

\* how the C library's strftime may write the years of the book: with four
\* digits from the year 1000 on, either way below
YearRenderings(bk) ==
    IF \E i \in 1..Len(bk) : bk[i].birthday.some /\ bk[i].birthday.v.y < 1000
    THEN BOOLEAN ELSE {TRUE}

InitMain ==
    /\ file \in MainFiles
    /\ book = LoadData(file)
    /\ today \in MainDays
    /\ pc = "read"
    /\ record = IdleRecord
    /\ raw = <<>>
    /\ result = IdleResult

WithinBounds(bk) == \A i \in 1..Len(bk) : Len(bk[i].phones) <= MaxMainPhones

\* one pass of the loop: input() returns a line and lines 611-627 run
ReadLine ==
    \E line \in MainLines : \E zeroFillYear \in YearRenderings(book) :
        \E step \in {MainStep(Typed[line].user_input, Typed[line].p, book, today,
                              zeroFillYear)} :
            /\ pc = "read"
            /\ WithinBounds(step.book)
            /\ book' = step.book
            /\ pc' = step.pc
            /\ file' = IF step.saved THEN SaveData(book, zeroFillYear) ELSE file
            /\ result' = [op |-> "line", args |-> <<>>, err |-> "none",
                          value |-> [cmd |-> step.cmd, msg |-> step.msg]]
            /\ UNCHANGED <<record, raw, today>>

\* input() raises EOFError: "except Exception" prints it and the loop goes on
ReadEndOfInput ==
    /\ pc = "read"
    /\ result' = [op |-> "eof", args |-> <<>>, err |-> "none",
                  value |-> [cmd |-> <<>>, msg |-> "Unexpected error"]]
    /\ UNCHANGED <<record, raw, book, today, pc, file>>

\* KeyboardInterrupt while input() waits: line 629 is entered
InterruptAtInput ==
    /\ pc = "read"
    /\ pc' = "intr"
    /\ result' = [op |-> "interrupt at input", args |-> <<>>, err |-> "none",
                  value |-> [cmd |-> <<>>, msg |-> "Exiting... (Data will be saved)"]]
    /\ UNCHANGED <<record, raw, book, today, file>>

\* KeyboardInterrupt while a line is handled: line 629 is entered
InterruptInCommand ==
    \E line \in MainLines :
        \E bk \in InterruptedBooks(Typed[line].user_input, Typed[line].p, book, today) :
            /\ pc = "read"
            /\ Typed[line].user_input # <<>>
            /\ WithinBounds(bk)
            /\ book' = bk
            /\ pc' = "intr"
            /\ result' = [op |-> "interrupt in command", args |-> <<>>,
                          err |-> "none",
                          value |-> [cmd |-> <<>>,
                                     msg |-> "Exiting... (Data will be saved)"]]
            /\ UNCHANGED <<record, raw, today, file>>

\* lines 631-632: save_data(book), break
SaveAfterInterrupt ==
    \E zeroFillYear \in YearRenderings(book) :
        /\ pc = "intr"
        /\ file' = SaveData(book, zeroFillYear)
        /\ pc' = "done"
        /\ result' = [result EXCEPT !.op = "interrupt saved"]
        /\ UNCHANGED <<record, raw, book, today>>

\* a second KeyboardInterrupt inside the except clause, before save_data ran:
\* it leaves main()
InterruptAgain ==
    /\ pc = "intr"
    /\ pc' = "killed"
    /\ result' = [result EXCEPT !.op = "interrupt in except clause"]
    /\ UNCHANGED <<record, raw, book, today, file>>

NextMain ==
    \/ ReadLine
    \/ ReadEndOfInput
    \/ InterruptAtInput
    \/ InterruptInCommand
    \/ SaveAfterInterrupt
    \/ InterruptAgain

SpecMain == InitMain /\ [][NextMain]_vars

\* what main() prints for a failed or unknown command
FailureMessages == {"Error", "Unexpected error", "Invalid command"}

\* the loop has been left
LoopLeft == pc \in {"intr", "done", "killed"}

FileHoldsBook ==
    /\ file.exists
    /\ \E zeroFillYear \in BOOLEAN :
           file.data = [i \in 1..Len(book) |-> ToDict(book[i], zeroFillYear)]

\* main() has left the loop, by break or by an exception
LoopEnded == pc \in {"done", "killed"}

C12_ErrorLeavesBook ==
    [][(result'.op = "line" /\ result'.value.cmd \in Commands
            /\ result'.value.msg = "Error")
        => book' = book]_vars

====
